---- MODULE Spec2Model ----
(***************************************************************************)
(* Model of src/main.py: the Ozon seller report script.  The client's      *)
(* paging and batching loops, the inventory gatherer, the two exporters    *)
(* and the entry point, against a server whose data is fixed in the        *)
(* initial state.  One action is one loop iteration (one HTTP call and     *)
(* the statements around it) or one whole pure function.                   *)
(*                                                                         *)
(* JSON values are records, so that any two of them can be compared: a     *)
(* dict is a record of its keys, null is Null, a list is JList(sequence),  *)
(* a scalar that the code converts with int() is IntVal(n) or StrVal(n)    *)
(* (the numeric string of n).  A list of postings is kept run-length       *)
(* encoded: the run [first, n] stands for the postings of ranks            *)
(* first .. first+n-1 in the server's ascending order.                     *)
(***************************************************************************)
EXTENDS Integers, Sequences, FiniteSets, TLC

VARIABLES
    pc,             \* position of the single thread of control
    exc,            \* the exception that ended the run, "none" while running
    srv,            \* the server: the data it holds and how it answers
    reqs,           \* every HTTP request issued so far, in order
    resps,          \* what came back for each of them, in the same order
    since,          \* get_orders: argument since
    to,             \* get_orders: argument to
    current_since,  \* get_orders: start of the current sub-window
    current_to,     \* get_orders: end of the current sub-window
    offset,         \* get_orders: paging offset inside the sub-window
    orders,         \* get_orders: accumulated postings (runs)
    items,          \* list_products: accumulated items (product_list once returned)
    last_id,        \* list_products: cursor for the next request, 0 for ""
    product_ids,    \* gather: the ids handed to get_product_info
    loop_i,         \* the index of the running range(0, len, step) loop
    out,            \* get_product_info: accumulated items (info_items once returned)
    skus,           \* gather: resolved sku list
    product_meta,   \* gather: sku -> {name, offer_id}, in insertion order
    clusters,       \* gather: the cluster list as returned
    warehouses,     \* gather: the flattened warehouse list
    wh_i,           \* gather: position in warehouses, from 1
    inventory,      \* gather: sku -> warehouse id -> counts, in insertion order
    env,            \* the environment after load_dotenv: name -> value, "" if unset
    client,         \* the OzonClient's headers once constructed, <<>> before
    files,          \* the workbooks saved so far, in order
    summary,        \* export_orders_summary: item key -> total, in insertion order
    earlier,        \* what an earlier call of the gatherer issued and returned
    http            \* _post: the attempts made, the last status, the error raised

orderVars == <<since, to, current_since, current_to, offset, orders>>
productVars == <<items, last_id, product_ids, loop_i, out, skus, product_meta>>
stockVars == <<clusters, warehouses, wh_i, inventory>>
mainVars == <<env, client, files, summary, earlier, http>>
vars == <<pc, exc, srv, reqs, resps, orderVars, productVars, stockVars, mainVars>>

-----------------------------------------------------------------------------
(* Program constants *)

MAX_PRODUCT_LIST_PAGE == 1000
MAX_INFO_BATCH == 1000
MAX_STOCK_BATCH == 100
MAX_ORDER_PAGE == 1000
MAX_OFFSET == 20000
WINDOW_DAYS == 30
SUMMARY_DAYS == 90
SecondsPerDay == 86400

Day == SecondsPerDay
WindowSpan == WINDOW_DAYS * Day

-----------------------------------------------------------------------------
(* Python and JSON helpers *)

Min(a, b) == IF a < b THEN a ELSE b
Max(a, b) == IF a > b THEN a ELSE b

Null == [null |-> TRUE]
IsNull(x) == "null" \in DOMAIN x

\* a JSON object where a list was expected
Obj == [message |-> 0]

JList(xs) == [list |-> xs]
ListOf(first, n) == [list |-> [first |-> first, n |-> n]]
EmptyList == ListOf(1, 0)

\* d.get(k, default)
DictGet(d, k, default) == IF k \in DOMAIN d THEN d[k] ELSE default

\* isinstance(x, list)
IsList(x) == "list" \in DOMAIN x

IntVal(n) == [int |-> n]
StrVal(n) == [str |-> n]

\* int(x) of a number or of a numeric string
PyInt(x) == IF "int" \in DOMAIN x THEN x.int ELSE x.str

\* bool(x) of None, a dict, a list or a number
Truthy(x) ==
    /\ ~IsNull(x)
    /\ DOMAIN x # {}
    /\ IsList(x) => x.list # <<>>
    /\ "int" \in DOMAIN x => x.int # 0

\* "a or b"
PyOr(a, b) == IF Truthy(a) THEN a ELSE b

\* "x or {}" for a dict or None
OrEmptyDict(x) == IF Truthy(x) THEN x ELSE <<>>

\* "x or []" for a list or None, read as a sequence
OrEmptyList(x) == IF Truthy(x) THEN x.list ELSE <<>>

\* a dict in insertion order: a sequence of entries [k, v] with distinct keys
DHas(d, k) == \E j \in 1..Len(d) : d[j].k = k
DAt(d, k) == d[CHOOSE j \in 1..Len(d) : d[j].k = k].v
DSet(d, k, v) ==
    IF DHas(d, k)
    THEN [j \in 1..Len(d) |-> IF d[j].k = k THEN [k |-> k, v |-> v] ELSE d[j]]
    ELSE Append(d, [k |-> k, v |-> v])
DKeys(d) == [j \in 1..Len(d) |-> d[j].k]

\* xs[a:b] of a list, 0-based and end-exclusive as in Python
Slice(xs, a, b) == SubSeq(xs, a + 1, Min(b, Len(xs)))

InSeq(x, xs) == \E j \in 1..Len(xs) : xs[j] = x

\* strftime("%Y-%m-%dT%H:%M:%SZ"): the date part and the time-of-day part
FormatTs(t) == <<t \div SecondsPerDay, t % SecondsPerDay>>

\* the server's reading of such a string
ParseTs(s) == s[1] * SecondsPerDay + s[2]

-----------------------------------------------------------------------------
(* The server *)

RECURSIVE CountBefore(_, _)
\* number of postings the server holds with a time before t
CountBefore(ps, t) ==
    IF ps = <<>> THEN 0
    ELSE (IF Head(ps).t < t THEN Head(ps).n ELSE 0) + CountBefore(Tail(ps), t)

OrderRequestsSoFar == Len(SelectSeq(reqs, LAMBDA r : r.ep = "v2/posting/fbo/list"))

\* v2/posting/fbo/list: the postings of [since, to) in ascending order, cut to
\* the page [offset, offset + limit)
OrdersAnswer(req) ==
    LET s == ParseTs(req.since)
        e == ParseTs(req.to)
        lo == CountBefore(srv.postings, s)
        total == Max(0, CountBefore(srv.postings, e) - lo)
        n == Min(req.limit, Max(0, total - req.offset))
    IN  IF srv.oddAt = OrderRequestsSoFar + 1
        THEN IF srv.oddKind = "missing" THEN [other |-> Null]
             ELSE [result |-> IF srv.oddKind = "null" THEN Null ELSE Obj]
        ELSE [result |-> ListOf(lo + req.offset + 1, n)]

\* v3/product/list: the page that follows the cursor sent
ProductListAnswer(req) ==
    LET after == {k \in 1..Len(srv.pages) : srv.pages[k].last_id = req.last_id}
        k == IF req.last_id = 0 THEN 1 ELSE 1 + CHOOSE j \in after : TRUE
    IN  IF (req.last_id # 0 /\ after = {}) \/ k > Len(srv.pages)
        THEN [result |-> [items |-> JList(<<>>), last_id |-> 0]]
        ELSE IF srv.pages[k].shape = "result_null" THEN [result |-> Null]
        ELSE IF srv.pages[k].shape = "items_null"
        THEN [result |-> [items |-> Null, last_id |-> srv.pages[k].last_id]]
        ELSE [result |-> [items |-> JList(srv.pages[k].items),
                          last_id |-> srv.pages[k].last_id]]

\* v3/product/info/list: the items the server knows for the ids asked, in one of
\* the shapes the endpoint has been seen to use
ProductInfoAnswer(req) ==
    LET found == SelectSeq(srv.info, LAMBDA it : InSeq(it.id, req.product_id))
    IN  CASE srv.infoShape = "result" -> [result |-> [items |-> JList(found)]]
          [] srv.infoShape = "top" -> [items |-> JList(found)]
          [] srv.infoShape = "result_null" -> [result |-> Null]
          [] srv.infoShape = "items_null" -> [result |-> [items |-> Null]]
          [] srv.infoShape = "items_object" -> [result |-> [items |-> Obj]]

\* v1/cluster/list
ClusterListAnswer(req) ==
    CASE srv.clusterShape = "top" -> [clusters |-> JList(srv.clusters)]
      [] srv.clusterShape = "result" -> [result |-> [clusters |-> JList(srv.clusters)]]
      [] srv.clusterShape = "result_null" -> [result |-> Null]
      [] srv.clusterShape = "clusters_null" -> [clusters |-> Null]

\* v1/analytics/stocks: the records the server holds for the skus and the
\* warehouses asked
StocksAnswer(req) ==
    LET found == SelectSeq(srv.stock,
                    LAMBDA r : InSeq(r.for_sku, req.skus)
                               /\ InSeq(r.for_wh, req.warehouse_ids))
        its == [j \in 1..Len(found) |-> found[j].item]
    IN  CASE srv.stockShape = "top" -> [items |-> JList(its)]
          [] srv.stockShape = "result" -> [result |-> [items |-> JList(its)]]
          [] srv.stockShape = "items_null" -> [items |-> Null]

ServerAnswer(req) ==
    CASE req.ep = "v2/posting/fbo/list" -> OrdersAnswer(req)
      [] req.ep = "v3/product/list" -> ProductListAnswer(req)
      [] req.ep = "v3/product/info/list" -> ProductInfoAnswer(req)
      [] req.ep = "v1/cluster/list" -> ClusterListAnswer(req)
      [] req.ep = "v1/analytics/stocks" -> StocksAnswer(req)

-----------------------------------------------------------------------------
(* OzonClient._post *)

Post(req) ==
    IF srv.failAt = Len(reqs) + 1
    THEN [ok |-> FALSE, data |-> Null]
    ELSE [ok |-> TRUE, data |-> ServerAnswer(req)]

\* mutant: the inventory is exported before the stock is fetched
CallOrderExportEarly ==
    <<"list_products", "get_product_info", "list_clusters", "export_inventory",
      "warehouse", "export_orders">>

\* mutant: the clusters are fetched before the product info
CallOrderSwapped ==
    <<"list_products", "list_clusters", "get_product_info", "warehouse",
      "export_inventory", "export_orders">>

\* the calls of gather_inventory_by_warehouses and of __main__, in the order
\* of the statements that make them
CallOrder ==
    <<"list_products", "get_product_info", "list_clusters", "warehouse",
      "export_inventory", "export_orders">>

\* the call that follows a call
Then(call) == CallOrder[(CHOOSE j \in 1..Len(CallOrder) : CallOrder[j] = call) + 1]

\* mutant: the exception is swallowed and the caller goes on where it was
RaiseSwallowed(e) == pc' = pc /\ exc' = e

Raise(e) == pc' = "raised" /\ exc' = e

-----------------------------------------------------------------------------
(* OzonClient._post: the attempts of one call *)

\* Retry(total=5, status_forcelist=(429,500,502,503,504))
RETRY_TOTAL == 5
STATUS_FORCELIST == {429, 500, 502, 503, 504}

\* no call has been made
NoHttp == [attempts |-> 0, status |-> 0, error |-> <<>>]

\* the status the server gives the n-th attempt: srv.flaky attempts get
\* srv.flakyStatus, the following ones srv.status
StatusAt(n) == IF n <= srv.flaky THEN srv.flakyStatus ELSE srv.status

\* mutant: one retry more than the total
RetriesLeftOffByOne(used) == used <= RETRY_TOTAL

\* the retry counter of the adapter: total retries after the first attempt
RetriesLeft(used) == used < RETRY_TOTAL

\* line 57, one attempt of session.post through the mounted adapter: a status
\* of the force list is retried while retries are left, any other response,
\* and the last one when none is left (raise_on_status=False), is handed back
SessionPost ==
    /\ pc = "post"
    /\ LET status == StatusAt(http.attempts + 1)
       IN  /\ http' = [http EXCEPT !.attempts = http.attempts + 1, !.status = status]
           /\ pc' = IF status \in STATUS_FORCELIST /\ RetriesLeft(http.attempts)
                    THEN "post"
                    ELSE "response"
    /\ UNCHANGED <<exc, srv, reqs, resps, env, client, files, summary, earlier,
                   orderVars, productVars, stockVars>>

\* lines 58-67: raise_for_status, then the body as JSON
RaiseForStatus ==
    /\ pc = "response"
    /\ IF http.status >= 400
       THEN /\ Raise("OzonApiError")
            /\ http' = [http EXCEPT !.error =
                          <<[kind |-> "HTTP error", status |-> http.status,
                             endpoint |-> reqs[1].ep, body |-> srv.body]>>]
       ELSE IF ~srv.bodyIsJson
       THEN /\ Raise("OzonApiError")
            /\ http' = [http EXCEPT !.error =
                          <<[kind |-> "Invalid JSON", endpoint |-> reqs[1].ep,
                             body |-> srv.body]>>]
       ELSE /\ pc' = "returned"
            /\ UNCHANGED <<exc, http>>
    /\ UNCHANGED <<srv, reqs, resps, env, client, files, summary, earlier,
                   orderVars, productVars, stockVars>>

-----------------------------------------------------------------------------
(* OzonClient.get_orders *)

OrdersPayload(cs, ct, off) ==
    [ep |-> "v2/posting/fbo/list", since |-> FormatTs(cs), to |-> FormatTs(ct),
     limit |-> MAX_ORDER_PAGE, offset |-> off]

\* mutant: the last window is not clamped to the end of the period
WindowEndUnclamped(cs, t) == cs + WindowSpan

WindowEnd(cs, t) == Min(t, cs + WindowSpan)

\* mutant: the offset ceiling is not tested
PagingStopsShortOnly(len, newOffset) == len < MAX_ORDER_PAGE

PagingStops(len, newOffset) == len < MAX_ORDER_PAGE \/ newOffset >= MAX_OFFSET

\* mutant: the next window starts where this one started
NextWindowStartStuck(cs, ct) == cs

\* current_since = current_to
NextWindowStart(cs, ct) == ct

\* the test of the outer loop and the two assignments that open a window
GetOrdersWindow ==
    /\ pc = "get_orders"
    /\ IF current_since < to
       THEN /\ current_to' = WindowEnd(current_since, to)
            /\ offset' = 0
            /\ pc' = "orders_page"
       ELSE /\ pc' = "summarize"
            /\ UNCHANGED <<current_to, offset>>
    /\ UNCHANGED <<exc, srv, reqs, resps, since, to, current_since, orders, productVars, stockVars,
                   mainVars>>

\* one iteration of the inner loop; on break, the window is advanced
GetOrdersPage ==
    /\ pc = "orders_page"
    /\ LET req == OrdersPayload(current_since, current_to, offset)
           resp == Post(req)
           result == DictGet(resp.data, "result", EmptyList)
       IN  /\ reqs' = Append(reqs, req)
           /\ resps' = Append(resps, resp)
           /\ IF ~resp.ok
              THEN /\ Raise("OzonApiError")
                   /\ UNCHANGED <<current_since, offset, orders>>
              ELSE IF ~IsList(result) \/ result.list.n = 0
              THEN /\ current_since' = NextWindowStart(current_since, current_to)
                   /\ pc' = "get_orders"
                   /\ UNCHANGED <<exc, offset, orders>>
              ELSE /\ orders' = Append(orders, result.list)
                   /\ offset' = offset + result.list.n
                   /\ IF PagingStops(result.list.n, offset + result.list.n)
                      THEN /\ current_since' = NextWindowStart(current_since, current_to)
                           /\ pc' = "get_orders"
                      ELSE /\ pc' = "orders_page"
                           /\ UNCHANGED current_since
                   /\ UNCHANGED exc
    /\ UNCHANGED <<srv, since, to, current_to, productVars, stockVars, mainVars>>

-----------------------------------------------------------------------------
(* OzonClient.list_products, and gather_inventory_by_warehouses up to its *)
(* call of get_product_info                                               *)

ProductListPayload(cursor) ==
    [ep |-> "v3/product/list", visibility |-> "IN_SALE", last_id |-> cursor,
     limit |-> MAX_PRODUCT_LIST_PAGE]

\* result.get("last_id") or ""
NextCursor(result) == DictGet(result, "last_id", 0)

\* mutant: the list outlives the call that filled it
FreshListKept(previous) == previous

\* "items = []", "out = []": a list made anew by every call
FreshList(previous) == <<>>

\* mutant: the page replaces the accumulated items
ExtendItemsReplace(acc, page) == page

\* items.extend(page_items)
ExtendItems(acc, page) == acc \o page

\* [p.get("product_id") for p in product_list if "product_id" in p]
ProductIdsOf(list) ==
    LET has == SelectSeq(list, LAMBDA p : "product_id" \in DOMAIN p)
    IN  [j \in 1..Len(has) |-> has[j].product_id]

\* one iteration of the while loop; when the cursor comes back empty the list
\* is returned, the gatherer collects the product ids and get_product_info
\* starts with an empty result
ListProductsPage ==
    /\ pc = "list_products"
    /\ LET req == ProductListPayload(last_id)
           resp == Post(req)
           result == OrEmptyDict(DictGet(resp.data, "result", Null))
           page_items == OrEmptyList(DictGet(result, "items", Null))
           all == ExtendItems(items, page_items)
           cursor == NextCursor(result)
       IN  /\ reqs' = Append(reqs, req)
           /\ resps' = Append(resps, resp)
           /\ IF ~resp.ok
              THEN /\ Raise("OzonApiError")
                   /\ UNCHANGED <<items, last_id, product_ids, out, loop_i>>
              ELSE /\ items' = all
                   /\ last_id' = cursor
                   /\ IF cursor = 0
                      THEN /\ product_ids' = ProductIdsOf(all)
                           /\ out' = FreshList(out)
                           /\ loop_i' = 0
                           /\ pc' = Then("list_products")
                      ELSE /\ pc' = "list_products"
                           /\ UNCHANGED <<product_ids, out, loop_i>>
                   /\ UNCHANGED exc
    /\ UNCHANGED <<srv, skus, product_meta, orderVars, stockVars, mainVars>>

-----------------------------------------------------------------------------
(* OzonClient.get_product_info, and the gatherer's reading of its result *)

ProductInfoPayload(chunk) == [ep |-> "v3/product/info/list", product_id |-> chunk]

\* mutant: the chunks overlap by one id
ChunkOverlapping(ids, at) == Slice(ids, Max(0, at - 1), at + MAX_INFO_BATCH)

\* ids[i:i+MAX_INFO_BATCH]
Chunk(ids, at) == Slice(ids, at, at + MAX_INFO_BATCH)

\* data.get("result", {}).get("items") or data.get("items") or []; None has
\* no get
InfoItemsRaises(data) == IsNull(DictGet(data, "result", <<>>))

InfoItems(data) ==
    LET nested == DictGet(DictGet(data, "result", <<>>), "items", Null)
        top == DictGet(data, "items", Null)
    IN  IF Truthy(nested) THEN nested
        ELSE IF Truthy(top) THEN top
        ELSE JList(<<>>)

\* items if isinstance(items, list) else []
ListOrEmpty(x) == IF IsList(x) THEN x.list ELSE <<>>

\* lines 158-164: the sku list and the metadata map, item by item
RECURSIVE ResolveSkus(_, _)
ResolveSkus(infos, acc) ==
    IF infos = <<>> THEN acc
    ELSE LET it == Head(infos)
             sku == DictGet(it, "sku", Null)
         IN  IF IsNull(sku) THEN ResolveSkus(Tail(infos), acc)
             ELSE ResolveSkus(Tail(infos),
                    [skus |-> Append(acc.skus, PyInt(sku)),
                     meta |-> DSet(acc.meta, PyInt(sku),
                                   [name |-> DictGet(it, "name", 0),
                                    offer_id |-> DictGet(it, "offer_id", 0)])])

\* one iteration of the for loop; after the last chunk the list is returned and
\* the gatherer builds skus and product_meta
GetProductInfoChunk ==
    /\ pc = "get_product_info"
    /\ IF loop_i < Len(product_ids)
       THEN LET req == ProductInfoPayload(Chunk(product_ids, loop_i))
                resp == Post(req)
            IN  /\ reqs' = Append(reqs, req)
                /\ resps' = Append(resps, resp)
                /\ IF ~resp.ok
                   THEN /\ Raise("OzonApiError")
                        /\ UNCHANGED <<loop_i, out>>
                   ELSE IF InfoItemsRaises(resp.data)
                   THEN /\ Raise("AttributeError")
                        /\ UNCHANGED <<loop_i, out>>
                   ELSE /\ out' = out \o ListOrEmpty(InfoItems(resp.data))
                        /\ loop_i' = loop_i + MAX_INFO_BATCH
                        /\ UNCHANGED <<pc, exc>>
                /\ UNCHANGED <<skus, product_meta>>
       ELSE LET r == ResolveSkus(out, [skus |-> <<>>, meta |-> <<>>])
            IN  /\ skus' = r.skus
                /\ product_meta' = r.meta
                /\ pc' = Then("get_product_info")
                /\ UNCHANGED <<exc, reqs, resps, loop_i, out>>
    /\ UNCHANGED <<srv, items, last_id, product_ids, orderVars, stockVars, mainVars>>

-----------------------------------------------------------------------------
(* OzonClient.list_clusters and the gatherer's flattening of its result *)

ClusterListPayload == [ep |-> "v1/cluster/list", cluster_type |-> "CLUSTER_TYPE_OZON"]

\* data.get("clusters") or (data.get("result") or {}).get("clusters", []);
\* return clusters or []
ClustersOf(data) ==
    LET top == DictGet(data, "clusters", Null)
        nested == DictGet(OrEmptyDict(DictGet(data, "result", Null)),
                          "clusters", JList(<<>>))
    IN  OrEmptyList(PyOr(top, nested))

\* lc.get("warehouses", []) or [] of every logistic cluster in
\* cl.get("logistic_clusters", []) or [], in order
RECURSIVE WarehousesOfLcs(_)
WarehousesOfLcs(lcs) ==
    IF lcs = <<>> THEN <<>>
    ELSE OrEmptyList(DictGet(Head(lcs), "warehouses", JList(<<>>)))
            \o WarehousesOfLcs(Tail(lcs))

RECURSIVE Flatten(_)
Flatten(cls) ==
    IF cls = <<>> THEN <<>>
    ELSE WarehousesOfLcs(OrEmptyList(DictGet(Head(cls), "logistic_clusters", JList(<<>>))))
            \o Flatten(Tail(cls))

\* the call of list_clusters and lines 167-172
ListClusters ==
    /\ pc = "list_clusters"
    /\ LET req == ClusterListPayload
           resp == Post(req)
       IN  /\ reqs' = Append(reqs, req)
           /\ resps' = Append(resps, resp)
           /\ IF ~resp.ok
              THEN /\ Raise("OzonApiError")
                   /\ UNCHANGED <<clusters, warehouses, wh_i, inventory>>
              ELSE /\ clusters' = ClustersOf(resp.data)
                   /\ warehouses' = Flatten(ClustersOf(resp.data))
                   /\ wh_i' = 1
                   /\ inventory' = <<>>
                   /\ pc' = Then("list_clusters")
                   /\ UNCHANGED exc
    /\ UNCHANGED <<srv, productVars, orderVars, mainVars>>

-----------------------------------------------------------------------------
(* gather_inventory_by_warehouses: the stock loops, and OzonClient.get_stocks *)

\* wh.get("warehouse_id") or wh.get("id")
WhId(wh) == PyOr(DictGet(wh, "warehouse_id", Null), DictGet(wh, "id", Null))

StocksPayload(batch, whs) ==
    [ep |-> "v1/analytics/stocks", skus |-> batch, warehouse_ids |-> whs]

\* mutant: the batches are one sku too long
StockBatchLong(list, at) == Slice(list, at, at + MAX_STOCK_BATCH + 1)

\* skus[i:i+MAX_STOCK_BATCH]
StockBatch(list, at) == Slice(list, at, at + MAX_STOCK_BATCH)

\* data.get("items") or (data.get("result") or {}).get("items", []);
\* return items or []
StockItemsOf(data) ==
    LET top == DictGet(data, "items", Null)
        nested == DictGet(OrEmptyDict(DictGet(data, "result", Null)),
                          "items", JList(<<>>))
    IN  OrEmptyList(PyOr(top, nested))

\* mutant: the item is stored with the counts it came with
StockRecordAsIs(item) == [f \in DOMAIN item \ {"sku"} |-> item[f]]

\* the record stored for a stock item
StockRecord(item) ==
    [available_stock_count |-> DictGet(item, "available_stock_count", 0),
     transit_stock_count |-> DictGet(item, "transit_stock_count", 0),
     requested_stock_count |-> DictGet(item, "requested_stock_count", 0)]

\* inventory.setdefault(sku, {})[wh] = rec
InventoryPut(inv, sku, wh, rec) ==
    DSet(inv, sku, DSet(IF DHas(inv, sku) THEN DAt(inv, sku) ELSE <<>>, wh, rec))

\* lines 179-186 over the items of one response
RECURSIVE Merge(_, _, _)
Merge(inv, stock_items, wh) ==
    IF stock_items = <<>> THEN inv
    ELSE LET item == Head(stock_items)
             sku_val == DictGet(item, "sku", Null)
         IN  IF IsNull(sku_val) THEN Merge(inv, Tail(stock_items), wh)
             ELSE Merge(InventoryPut(inv, PyInt(sku_val), wh, StockRecord(item)),
                        Tail(stock_items), wh)

\* the head of the loop over the warehouses: a warehouse with no id is passed
\* over, after the last one the gatherer returns
GatherWarehouse ==
    /\ pc = "warehouse"
    /\ IF wh_i > Len(warehouses)
       THEN /\ pc' = Then("warehouse")
            /\ UNCHANGED <<wh_i, loop_i>>
       ELSE IF IsNull(WhId(warehouses[wh_i]))
       THEN /\ wh_i' = wh_i + 1
            /\ UNCHANGED <<pc, loop_i>>
       ELSE /\ loop_i' = 0
            /\ pc' = "stock_batch"
            /\ UNCHANGED wh_i
    /\ UNCHANGED <<exc, srv, reqs, resps, items, last_id, product_ids, out, skus,
                   product_meta, clusters, warehouses, inventory, orderVars, mainVars>>

\* one iteration of the loop over the sku batches of a warehouse
GetStocksBatch ==
    /\ pc = "stock_batch"
    /\ IF loop_i < Len(skus)
       THEN LET wh == PyInt(WhId(warehouses[wh_i]))
                req == StocksPayload(StockBatch(skus, loop_i), <<wh>>)
                resp == Post(req)
            IN  /\ reqs' = Append(reqs, req)
                /\ resps' = Append(resps, resp)
                /\ IF ~resp.ok
                   THEN /\ Raise("OzonApiError")
                        /\ UNCHANGED <<loop_i, inventory>>
                   ELSE /\ inventory' = Merge(inventory, StockItemsOf(resp.data), wh)
                        /\ loop_i' = loop_i + MAX_STOCK_BATCH
                        /\ UNCHANGED <<pc, exc>>
                /\ UNCHANGED wh_i
       ELSE /\ wh_i' = wh_i + 1
            /\ pc' = "warehouse"
            /\ UNCHANGED <<exc, reqs, resps, loop_i, inventory>>
    /\ UNCHANGED <<srv, items, last_id, product_ids, out, skus, product_meta,
                   clusters, warehouses, orderVars, mainVars>>

\* gather_inventory_by_warehouses called once more in the same process, once
\* a call has returned: what that call issued and returned is kept aside, the
\* server answers as it did, and list_products starts from its first line
GatherAgain ==
    /\ pc = "export_inventory"
    /\ earlier = <<>>
    /\ earlier' = <<[reqs |-> reqs, inventory |-> inventory,
                   product_meta |-> product_meta, clusters |-> clusters]>>
    /\ reqs' = <<>>
    /\ resps' = <<>>
    /\ items' = FreshList(items)
    /\ last_id' = 0
    /\ pc' = CallOrder[1]
    /\ UNCHANGED <<exc, srv, product_ids, loop_i, out, skus, product_meta, stockVars,
                   orderVars, env, client, files, summary, http>>

-----------------------------------------------------------------------------
(* export_inventory_to_excel *)

RECURSIVE ConcatAll(_)
\* the sequences of a sequence, concatenated
ConcatAll(ss) == IF ss = <<>> THEN <<>> ELSE Head(ss) \o ConcatAll(Tail(ss))

RECURSIVE SumSeq(_)
SumSeq(ns) == IF ns = <<>> THEN 0 ELSE Head(ns) + SumSeq(Tail(ns))

\* cluster.get("logistic_clusters", []) and lc.get("warehouses", []): no "or []"
LcsRaw(cluster) == DictGet(cluster, "logistic_clusters", JList(<<>>))
WhsRaw(lc) == DictGet(lc, "warehouses", JList(<<>>))

\* the warehouses the two loops of the exporter go through for a cluster
ExportWhs(cluster) ==
    LET lcs == LcsRaw(cluster).list
    IN  ConcatAll([j \in 1..Len(lcs) |-> WhsRaw(lcs[j]).list])

\* inventory.get(sku, {}).get(wh, {})
StockData(inv, sku, wh) ==
    LET byWh == IF DHas(inv, sku) THEN DAt(inv, sku) ELSE <<>>
    IN  IF DHas(byWh, wh) THEN DAt(byWh, wh) ELSE <<>>

Available(stock_data) == DictGet(stock_data, "available_stock_count", 0)

\* lines 200-208 raise TypeError: a None where a list is iterated, or int(None)
\* for a warehouse with no id as soon as there is a sku to look up
ExportRaises(meta, cls) ==
    \E c \in 1..Len(cls) :
        \/ IsNull(LcsRaw(cls[c]))
        \/ /\ ~IsNull(LcsRaw(cls[c]))
           /\ \E l \in 1..Len(LcsRaw(cls[c]).list) :
                 LET lc == LcsRaw(cls[c]).list[l]
                 IN  \/ IsNull(WhsRaw(lc))
                     \/ /\ ~IsNull(WhsRaw(lc))
                        /\ meta # <<>>
                        /\ \E w \in 1..Len(WhsRaw(lc).list) :
                              IsNull(WhId(WhsRaw(lc).list[w]))

\* lines 201-207: the available stock of a cluster over all known skus
ClusterTotal(meta, inv, cluster) ==
    LET whs == ExportWhs(cluster)
    IN  SumSeq(ConcatAll(
            [w \in 1..Len(whs) |->
                [k \in 1..Len(meta) |->
                    Available(StockData(inv, meta[k].k, PyInt(WhId(whs[w]))))]]))

\* sort(key=total, reverse=True): stable, largest first
RECURSIVE SortClusters(_)
SortClusters(sums) ==
    IF sums = <<>> THEN <<>>
    ELSE LET rest == SortClusters(SubSeq(sums, 1, Len(sums) - 1))
             x == sums[Len(sums)]
             n == Cardinality({j \in 1..Len(rest) : rest[j].total >= x.total})
         IN  SubSeq(rest, 1, n) \o <<x>> \o SubSeq(rest, n + 1, Len(rest))

\* sorted(skus_in_wh, key=offer_id): stable, smallest first
RECURSIVE SortSkus(_, _)
SortSkus(list, meta) ==
    IF list = <<>> THEN <<>>
    ELSE LET rest == SortSkus(SubSeq(list, 1, Len(list) - 1), meta)
             x == list[Len(list)]
             n == Cardinality({j \in 1..Len(rest) :
                                DAt(meta, rest[j]).offer_id <= DAt(meta, x).offer_id})
         IN  SubSeq(rest, 1, n) \o <<x>> \o SubSeq(rest, n + 1, Len(rest))

\* "wh_id in inventory.get(sku, {})": the id as the cluster response gives it
\* against the keys the gatherer stored, which are numbers
RawIn(wh_id, inv, sku) ==
    /\ ~IsNull(wh_id)
    /\ "int" \in DOMAIN wh_id
    /\ DHas(IF DHas(inv, sku) THEN DAt(inv, sku) ELSE <<>>, wh_id.int)

\* lines 227-230
SkusInWh(meta, inv, wh_id) ==
    SelectSeq(DKeys(meta), LAMBDA sku : RawIn(wh_id, inv, sku))

\* line 258
ZeroFill(stock_data) == Available(stock_data) = 0

\* lines 249-261: the row of a sku under a warehouse
SkuRow(meta, inv, sku, wh) ==
    LET stock_data == StockData(inv, sku, wh)
    IN  [kind |-> "sku", sku |-> sku, wh |-> wh,
         name |-> DAt(meta, sku).name,
         offer_id |-> DAt(meta, sku).offer_id,
         available |-> Available(stock_data),
         transit |-> DictGet(stock_data, "transit_stock_count", 0),
         requested |-> DictGet(stock_data, "requested_stock_count", 0),
         fill |-> ZeroFill(stock_data)]

\* lines 225-261: the rows of one warehouse, none if no sku is stocked there
WarehouseRows(meta, inv, wh) ==
    LET wh_id == WhId(wh)
        skus_in_wh == SkusInWh(meta, inv, wh_id)
        sorted_skus == SortSkus(skus_in_wh, meta)
        total_stock == SumSeq([j \in 1..Len(skus_in_wh) |->
                          Available(StockData(inv, skus_in_wh[j], PyInt(wh_id)))])
    IN  IF skus_in_wh = <<>> THEN <<>>
        ELSE <<[kind |-> "warehouse", name |-> DictGet(wh, "name", 0),
                wh |-> PyInt(wh_id), total |-> total_stock]>>
             \o [j \in 1..Len(sorted_skus) |->
                    SkuRow(meta, inv, sorted_skus[j], PyInt(wh_id))]

\* lines 213-266: the sheet of a cluster
Sheet(meta, inv, cluster) ==
    LET whs == ExportWhs(cluster)
    IN  [title |-> DictGet(cluster, "name", 0),
         rows |-> ConcatAll([w \in 1..Len(whs) |-> WarehouseRows(meta, inv, whs[w])])]

\* the workbook: one sheet per cluster, clusters with most stock first
InventorySheets(meta, inv, cls) ==
    LET sorted == SortClusters([c \in 1..Len(cls) |->
                      [cluster |-> cls[c], total |-> ClusterTotal(meta, inv, cls[c])]])
    IN  [c \in 1..Len(sorted) |-> Sheet(meta, inv, sorted[c].cluster)]

\* the whole function; wb.save of a workbook left without any sheet is up to
\* the spreadsheet library, which may refuse it
ExportInventory ==
    /\ pc = "export_inventory"
    /\ IF ExportRaises(product_meta, clusters)
       THEN /\ Raise("TypeError")
            /\ UNCHANGED files
       ELSE LET sheets == InventorySheets(product_meta, inventory, clusters)
            IN  \E saved \in IF sheets = <<>> THEN BOOLEAN ELSE {TRUE} :
                    IF saved
                    THEN /\ files' = Append(files, [name |-> "ozon_inventory.xlsx",
                                                    sheets |-> sheets])
                         /\ pc' = Then("export_inventory")
                         /\ UNCHANGED exc
                    ELSE /\ Raise("IndexError")
                         /\ UNCHANGED files
    /\ UNCHANGED <<srv, reqs, resps, env, client, summary, earlier, http, orderVars,
                   productVars, stockVars>>

-----------------------------------------------------------------------------
(* export_orders_summary_to_excel *)

\* datetime.now() at the export of the orders; the second call may come later
NowAtExport == 100 * Day
ClockSteps == {0, 1}

\* lines 273-275, up to the first test of get_orders' outer loop
StartOrders ==
    /\ pc = "export_orders"
    /\ \E late \in ClockSteps :
          /\ since' = NowAtExport - SUMMARY_DAYS * Day
          /\ to' = NowAtExport + late
          /\ current_since' = NowAtExport - SUMMARY_DAYS * Day
    /\ orders' = <<>>
    /\ pc' = "get_orders"
    /\ UNCHANGED <<exc, srv, reqs, resps, current_to, offset, productVars, stockVars,
                   mainVars>>

RECURSIVE OrderOfRank(_, _)
\* the posting of rank r among the groups ps
OrderOfRank(ps, r) ==
    IF r <= Head(ps).n THEN Head(ps).order ELSE OrderOfRank(Tail(ps), r - Head(ps).n)

\* the postings of the runs, one by one
FetchedOrders(runs) ==
    ConcatAll([k \in 1..Len(runs) |->
                 [j \in 1..runs[k].n |-> OrderOfRank(srv.postings, runs[k].first + j - 1)]])

\* the line items of the postings, in order; order.get("products", []) is
\* iterated as it is
LineItems(os) ==
    ConcatAll([k \in 1..Len(os) |-> DictGet(os[k], "products", JList(<<>>)).list])

\* item.get("offer_id") or item.get("sku")
ItemKey(item) == PyOr(DictGet(item, "offer_id", Null), DictGet(item, "sku", Null))

\* mutant: a line item without quantity counts for nothing
QuantityOrZero(item) == DictGet(item, "quantity", IntVal(0))

\* the value item.get("quantity", 1) hands to int()
Quantity(item) == DictGet(item, "quantity", IntVal(1))

\* lines 277-281 and 291 raise TypeError: None iterated, int(None), or keys of
\* both kinds (str offer_id, int sku) handed to sorted()
SummaryRaises(os) ==
    \/ \E k \in 1..Len(os) : IsNull(DictGet(os[k], "products", JList(<<>>)))
    \/ /\ \A k \in 1..Len(os) : ~IsNull(DictGet(os[k], "products", JList(<<>>)))
       /\ LET lines == SelectSeq(LineItems(os), LAMBDA it : Truthy(ItemKey(it)))
          IN  \/ \E j \in 1..Len(lines) : IsNull(Quantity(lines[j]))
              \/ \E a, b \in 1..Len(lines) :
                    DOMAIN ItemKey(lines[a]) # DOMAIN ItemKey(lines[b])

RECURSIVE Summed(_, _)
\* summary[sku] = summary.get(sku, 0) + int(quantity) over the line items
Summed(lines, acc) ==
    IF lines = <<>> THEN acc
    ELSE LET key == ItemKey(Head(lines))
         IN  IF ~Truthy(key) THEN Summed(Tail(lines), acc)
             ELSE Summed(Tail(lines),
                         DSet(acc, key, (IF DHas(acc, key) THEN DAt(acc, key) ELSE 0)
                                            + PyInt(Quantity(Head(lines)))))

\* sorted(summary.keys()) of keys of one kind
RECURSIVE SortKeys(_)
SortKeys(keys) ==
    IF keys = <<>> THEN <<>>
    ELSE LET rest == SortKeys(SubSeq(keys, 1, Len(keys) - 1))
             x == keys[Len(keys)]
             n == Cardinality({j \in 1..Len(rest) : PyInt(rest[j]) <= PyInt(x)})
         IN  SubSeq(rest, 1, n) \o <<x>> \o SubSeq(rest, n + 1, Len(rest))

\* lines 291-296
SummaryRows(sums) ==
    LET keys == SortKeys(DKeys(sums))
    IN  [j \in 1..Len(keys) |->
            [key |-> keys[j], count |-> DAt(sums, keys[j]),
             fill |-> DAt(sums, keys[j]) = 0]]

\* lines 276-298, once get_orders has returned
Summarize ==
    /\ pc = "summarize"
    /\ LET os == FetchedOrders(orders)
       IN  IF SummaryRaises(os)
           THEN /\ Raise("TypeError")
                /\ UNCHANGED <<files, summary>>
           ELSE LET sums == Summed(LineItems(os), <<>>)
                IN  /\ summary' = sums
                    /\ files' = Append(files, [name |-> "ozon_last_3_months.xlsx",
                                               sheets |-> <<[title |-> 0,
                                                            rows |-> SummaryRows(sums)]>>])
                    /\ pc' = "done"
                    /\ UNCHANGED exc
    /\ UNCHANGED <<srv, reqs, resps, env, client, earlier, http, orderVars, productVars,
                   stockVars>>

-----------------------------------------------------------------------------
(* __main__ *)

\* os.getenv(a) or os.getenv(b)
EnvOr(a, b) == IF a # "" THEN a ELSE b

OZON_CLIENT_ID == EnvOr(env.OZON_CLIENT_ID, env.CLIENT_ID)
OZON_API_KEY == EnvOr(EnvOr(env.OZON_API_KEY, env.CLIENT_TOKEN), env.API_KEY)

\* mutant: the value is handed on without the test
RequireEnvRaisesNever(var_value) == FALSE

\* _require_env: "if not var_value: raise"
RequireEnvRaises(var_value) == var_value = ""

\* OzonClient.__init__: the headers of every request
NewClient(client_id, api_key) == [ClientId |-> client_id, ApiKey |-> api_key]

\* lines 304-306
Main ==
    /\ pc = "main"
    /\ IF RequireEnvRaises(OZON_CLIENT_ID) \/ RequireEnvRaises(OZON_API_KEY)
       THEN /\ Raise("OzonApiError")
            /\ UNCHANGED client
       ELSE /\ client' = NewClient(OZON_CLIENT_ID, OZON_API_KEY)
            /\ pc' = CallOrder[1]
            /\ UNCHANGED exc
    /\ UNCHANGED <<srv, reqs, resps, env, files, summary, earlier, http, orderVars,
                   productVars, stockVars>>

IdleProducts ==
    /\ items = <<>>
    /\ last_id = 0
    /\ product_ids = <<>>
    /\ loop_i = 0
    /\ out = <<>>
    /\ skus = <<>>
    /\ product_meta = <<>>

IdleStock ==
    /\ clusters = <<>>
    /\ warehouses = <<>>
    /\ wh_i = 1
    /\ inventory = <<>>

\* the client has been constructed, nothing has been written
ClientReady ==
    /\ env = [OZON_CLIENT_ID |-> "id", CLIENT_ID |-> "", OZON_API_KEY |-> "key",
              CLIENT_TOKEN |-> "", API_KEY |-> ""]
    /\ client = [ClientId |-> "id", ApiKey |-> "key"]
    /\ files = <<>>
    /\ summary = <<>>
    /\ earlier = <<>>
    /\ http = NoHttp

IdleOrders ==
    /\ since = 0
    /\ to = 0
    /\ current_since = 0
    /\ current_to = 0
    /\ offset = 0
    /\ orders = <<>>

-----------------------------------------------------------------------------
(* get_orders on its own: any period, any server *)

MaxGroups == 2

PeriodStarts == {0, 3 * Day + 7}
PeriodLengths == {0 - Day, 0, 1, 5 * Day, 30 * Day, 30 * Day + 1, 60 * Day, 95 * Day}
PostingOffsets == {0 - 1, 0, 30 * Day - 1, 30 * Day, 95 * Day}
PostingCounts == {1, 1000, 1500, 20000, 20001}
OddKinds == {"null", "object", "missing"}

\* a server that holds nothing and answers every request
NoServer ==
    [pages |-> <<>>, info |-> <<>>, infoShape |-> "result",
     clusters |-> <<>>, clusterShape |-> "top", stock |-> <<>>, stockShape |-> "top",
     postings |-> <<>>, oddAt |-> 0, oddKind |-> "null", failAt |-> 0,
     flaky |-> 0, flakyStatus |-> 503, status |-> 200, bodyIsJson |-> TRUE, body |-> 0]

\* groups of postings at strictly increasing times
PostingLists(s, maxLen) ==
    {ps \in UNION {[1..k -> [t : {s + o : o \in PostingOffsets}, n : PostingCounts]]
                    : k \in 0..maxLen} :
        \A i \in 1..(Len(ps) - 1) : ps[i].t < ps[i + 1].t}

\* servers that answer with lists throughout, servers that answer one request
\* with something that is no list, and servers that fail one request
OrderServers(s) ==
    {[NoServer EXCEPT !.postings = ps] : ps \in PostingLists(s, MaxGroups)}
    \cup {[NoServer EXCEPT !.postings = ps, !.oddAt = k, !.oddKind = kind] :
            ps \in PostingLists(s, 1), k \in 1..2, kind \in OddKinds}
    \cup {[NoServer EXCEPT !.postings = ps, !.failAt = k] :
            ps \in PostingLists(s, 1), k \in 1..2}

InitOrders ==
    /\ pc = "get_orders"
    /\ exc = "none"
    /\ reqs = <<>>
    /\ resps = <<>>
    /\ since \in PeriodStarts
    /\ to \in {since + d : d \in PeriodLengths}
    /\ srv \in OrderServers(since)
    /\ current_since = since
    /\ current_to = since
    /\ offset = 0
    /\ orders = <<>>
    /\ IdleProducts
    /\ IdleStock
    /\ ClientReady

NextOrders == GetOrdersWindow \/ GetOrdersPage

SpecOrders == InitOrders /\ [][NextOrders]_vars

-----------------------------------------------------------------------------
(* Properties of get_orders *)

IsOrderReq(k) == reqs[k].ep = "v2/posting/fbo/list"

ReqSince(k) == ParseTs(reqs[k].since)
ReqTo(k) == ParseTs(reqs[k].to)

\* the result of the k-th response as the code reads it
PageResult(k) == DictGet(resps[k].data, "result", EmptyList)
PageLen(k) == IF IsList(PageResult(k)) THEN PageResult(k).list.n ELSE 0

OrdersReturned == pc = "summarize"

RECURSIVE AllCovered(_, _)
\* every posting of ranks a..b lies in some run of orders
AllCovered(a, b) ==
    IF a > b THEN TRUE
    ELSE LET hit == {k \in 1..Len(orders) :
                        orders[k].first <= a /\ a < orders[k].first + orders[k].n}
         IN  IF hit = {} THEN FALSE
             ELSE LET k == CHOOSE k \in hit : TRUE
                  IN  AllCovered(orders[k].first + orders[k].n, b)

\* the postings the server holds in [since, to)
PeriodFirst == CountBefore(srv.postings, since) + 1
PeriodLast == CountBefore(srv.postings, to)

\* C1: when get_orders returns, against a server that answers every request
\* with a list, every posting of [since, to) is in the returned list, also
\* when a 30-day sub-window holds more than 20000 postings.
C1_NoOrderLost ==
    (OrdersReturned /\ since < to /\ srv.oddAt = 0)
        => AllCovered(PeriodFirst, PeriodLast)

\* the positions of the requests that open a window, in order
WindowOpeners == SelectSeq([k \in 1..Len(reqs) |-> k],
                           LAMBDA k : IsOrderReq(k) /\ reqs[k].offset = 0)

CeilDiv(a, b) == (a + b - 1) \div b

\* C2: get_orders(since, to) with since < to has gone, when it returns, through
\* exactly ceil((to - since) / 30 days) sub-windows: the first starts at since,
\* each ends at min(to, start + 30 days), each next one starts where the
\* previous one ended, the last ends at to, and the paging of every window
\* starts at offset 0; with since >= to no request is issued.
C2_Windows ==
    /\ since >= to => reqs = <<>>
    /\ \A k \in 1..Len(reqs) :
          (k = 1 \/ ReqSince(k) # ReqSince(k - 1) \/ ReqTo(k) # ReqTo(k - 1))
              => reqs[k].offset = 0
    /\ (OrdersReturned /\ since < to) =>
          LET w == WindowOpeners
          IN  /\ Len(w) = CeilDiv(to - since, WindowSpan)
              /\ ReqSince(w[1]) = since
              /\ ReqTo(w[Len(w)]) = to
              /\ \A i \in 1..Len(w) :
                    ReqTo(w[i]) = Min(to, ReqSince(w[i]) + WindowSpan)
              /\ \A i \in 1..(Len(w) - 1) : ReqSince(w[i + 1]) = ReqTo(w[i])

\* 95 days have been cut into windows of 30, 30, 30 and 5 days
C2_Witness ==
    /\ OrdersReturned
    /\ to - since = 95 * Day
    /\ Len(WindowOpeners) = 4
    /\ ReqTo(WindowOpeners[4]) - ReqSince(WindowOpeners[4]) = 5 * Day

\* the k-th page ends the paging of its window
PageEndsWindow(k) ==
    \/ ~IsList(PageResult(k))
    \/ PageLen(k) = 0
    \/ PageLen(k) < MAX_ORDER_PAGE
    \/ reqs[k].offset + PageLen(k) >= MAX_OFFSET

SameWindow(j, k) == ReqSince(j) = ReqSince(k) /\ ReqTo(j) = ReqTo(k)

\* C3: no order-list request carries an offset of 20000 or more; after a page
\* that is no list, empty, shorter than 1000 items or that brings the offset to
\* 20000 the window is left (the next request, if any, belongs to another
\* window), and after a full page below the ceiling the next request is for
\* the same window with the offset increased by the page length.
C3_Paging ==
    /\ \A k \in 1..Len(reqs) : IsOrderReq(k) => reqs[k].offset < MAX_OFFSET
    /\ \A k \in 1..Len(reqs) : (IsOrderReq(k) /\ resps[k].ok) =>
          IF PageEndsWindow(k)
          THEN /\ pc # "orders_page"
                    \/ (k = Len(reqs) /\ offset = 0 /\ current_since = ReqTo(k))
                    \/ k < Len(reqs)
               /\ k < Len(reqs) =>
                    (~SameWindow(k, k + 1) /\ reqs[k + 1].offset = 0)
          ELSE /\ k = Len(reqs) =>
                    (pc = "orders_page" /\ offset = reqs[k].offset + PageLen(k))
               /\ k < Len(reqs) =>
                    /\ SameWindow(k, k + 1)
                    /\ reqs[k + 1].offset = reqs[k].offset + PageLen(k)

\* a window that holds more than 20000 postings has been left at the ceiling
C3_Witness ==
    \E k \in 1..Len(reqs) :
        /\ IsOrderReq(k)
        /\ reqs[k].offset + PageLen(k) = MAX_OFFSET
        /\ CountBefore(srv.postings, ReqTo(k)) - CountBefore(srv.postings, ReqSince(k))
              > MAX_OFFSET
        /\ pc = "get_orders"
        /\ k = Len(reqs)

-----------------------------------------------------------------------------
(* list_products on its own: servers of 1..MaxPages pages, of which only the *)
(* last one has an empty cursor                                             *)

MaxPages == 3

\* item lists of a page; the item with no product_id is one the gatherer drops
PageItemLists ==
    {<<>>,
     <<[product_id |-> 1]>>,
     <<[product_id |-> 2], [offer_id |-> 3]>>,
     <<[offer_id |-> 3], [product_id |-> 1], [product_id |-> 4]>>}

\* the cursor the server hands out with its k-th page
Token(k) == 50 - 7 * k

PageContents ==
    {[items |-> its, shape |-> "ok"] : its \in PageItemLists}
    \cup {[items |-> <<>>, shape |-> "items_null"]}

LastPageContents == PageContents \cup {[items |-> <<>>, shape |-> "result_null"]}

PageLists ==
    UNION {{[k \in 1..n |-> [items |-> c[k].items, shape |-> c[k].shape,
                             last_id |-> IF k = n THEN 0 ELSE Token(k)]] :
              c \in {f \in [1..n -> LastPageContents] :
                        \A k \in 1..(n - 1) : f[k] \in PageContents}} :
           n \in 1..MaxPages}

ProductServers ==
    {[NoServer EXCEPT !.pages = pl] : pl \in PageLists}
    \cup {[NoServer EXCEPT !.pages = pl, !.failAt = k] :
            pl \in {q \in PageLists : Len(q) = 2 /\ \A j \in 1..2 : Len(q[j].items) = 1},
            k \in 1..2}

InitProducts ==
    /\ pc = "list_products"
    /\ exc = "none"
    /\ reqs = <<>>
    /\ resps = <<>>
    /\ srv \in ProductServers
    /\ IdleProducts
    /\ IdleStock
    /\ IdleOrders
    /\ ClientReady

NextProducts == ListProductsPage

SpecProducts == InitProducts /\ [][NextProducts]_vars

-----------------------------------------------------------------------------
(* Properties of list_products *)

ProductsReturned == pc = "get_product_info"

RECURSIVE ConcatPages(_, _)
\* the items of the server's pages 1..n, in page order
ConcatPages(pages, n) ==
    IF n = 0 THEN <<>> ELSE ConcatPages(pages, n - 1) \o pages[n].items

RECURSIVE SumPageSizes(_, _)
SumPageSizes(pages, n) ==
    IF n = 0 THEN 0 ELSE SumPageSizes(pages, n - 1) + Len(pages[n].items)

\* the cursor that came back with the k-th response
ReturnedCursor(k) ==
    LET result == DictGet(resps[k].data, "result", Null)
    IN  IF IsNull(result) THEN 0 ELSE DictGet(result, "last_id", 0)

\* C4: against a server of N pages of which only the last has an empty cursor,
\* list_products issues exactly N requests, the first with the empty cursor and
\* every later one with the cursor of the preceding response, and returns the
\* items of the N pages concatenated in page order.
C4_ListProducts ==
    /\ \A k \in 1..Len(reqs) :
          reqs[k].last_id = IF k = 1 THEN 0 ELSE ReturnedCursor(k - 1)
    /\ Len(reqs) <= Len(srv.pages)
    /\ ProductsReturned =>
          /\ Len(reqs) = Len(srv.pages)
          /\ items = ConcatPages(srv.pages, Len(srv.pages))
          /\ Len(items) = SumPageSizes(srv.pages, Len(srv.pages))

\* three pages, each with items, have been listed
C4_Witness ==
    /\ ProductsReturned
    /\ Len(srv.pages) = 3
    /\ \A k \in 1..3 : Len(srv.pages[k].items) > 0
    /\ Len(reqs) = 3
    /\ Len(items) > 3

-----------------------------------------------------------------------------
(* get_product_info on its own: n ids, a server that knows a few of them *)

MaxIds == 2500

IdCounts == {0, 1, 999, 1000, 1001, 2000, 2001, MaxIds}

InfoCandidates ==
    << [id |-> 1, sku |-> IntVal(11), name |-> 1, offer_id |-> 2],
       [id |-> 1000, sku |-> StrVal(12), offer_id |-> 1],
       [id |-> 1001, name |-> 3, offer_id |-> 3],
       [id |-> 2001, sku |-> Null, name |-> 4, offer_id |-> 4] >>

\* the candidates picked by a set of positions, in the server's order
InfoTable(picked) ==
    LET keep == SelectSeq([k \in 1..Len(InfoCandidates) |-> k], LAMBDA k : k \in picked)
    IN  [j \in 1..Len(keep) |-> InfoCandidates[keep[j]]]

InfoShapes == {"result", "top", "result_null", "items_null", "items_object"}

InfoServers ==
    {[NoServer EXCEPT !.info = InfoTable(picked), !.infoShape = shape] :
        picked \in SUBSET (1..Len(InfoCandidates)), shape \in InfoShapes}
    \cup {[NoServer EXCEPT !.info = InfoTable({1, 2}), !.failAt = k] : k \in 1..3}

InitInfo ==
    /\ pc = "get_product_info"
    /\ exc = "none"
    /\ reqs = <<>>
    /\ resps = <<>>
    /\ srv \in InfoServers
    /\ \E n \in IdCounts :
          /\ items = [k \in 1..n |-> [product_id |-> k]]
          /\ product_ids = [k \in 1..n |-> k]
    /\ last_id = 0
    /\ loop_i = 0
    /\ out = <<>>
    /\ skus = <<>>
    /\ product_meta = <<>>
    /\ IdleStock
    /\ IdleOrders
    /\ ClientReady

NextInfo == GetProductInfoChunk

SpecInfo == InitInfo /\ [][NextInfo]_vars

-----------------------------------------------------------------------------
(* Properties of get_product_info *)

InfoReturned == pc = "list_clusters"

RECURSIVE ConcatChunks(_)
\* the id chunks sent so far, concatenated in request order
ConcatChunks(n) ==
    IF n = 0 THEN <<>> ELSE ConcatChunks(n - 1) \o reqs[n].product_id

\* the item list of the k-th response: under result.items, else under items
ResponseItems(k) ==
    LET d == resps[k].data
        l == IF "result" \in DOMAIN d /\ "items" \in DOMAIN d.result
             THEN d.result.items
             ELSE IF "items" \in DOMAIN d THEN d.items ELSE Null
    IN  IF IsList(l) THEN l.list ELSE <<>>

RECURSIVE ConcatResponses(_)
ConcatResponses(n) ==
    IF n = 0 THEN <<>> ELSE ConcatResponses(n - 1) \o ResponseItems(n)

\* C5: get_product_info with n ids has issued, when it returns, exactly
\* ceil(n / 1000) requests; no chunk exceeds 1000 ids, the chunks concatenated in
\* request order are the id list, and the returned list is the concatenation
\* of the item lists of the responses in request order.
C5_InfoBatches ==
    /\ \A k \in 1..Len(reqs) :
          Len(reqs[k].product_id) \in 1..MAX_INFO_BATCH
    /\ ConcatChunks(Len(reqs)) = Slice(product_ids, 0, Len(ConcatChunks(Len(reqs))))
    /\ InfoReturned =>
          /\ Len(reqs) = CeilDiv(Len(product_ids), MAX_INFO_BATCH)
          /\ ConcatChunks(Len(reqs)) = product_ids
          /\ out = ConcatResponses(Len(reqs))

\* 2500 ids have gone out as 1000, 1000 and 500, and items came back
C5_Witness ==
    /\ InfoReturned
    /\ Len(product_ids) = 2500
    /\ Len(reqs) = 3
    /\ Len(reqs[1].product_id) = 1000
    /\ Len(reqs[2].product_id) = 1000
    /\ Len(reqs[3].product_id) = 500
    /\ Len(out) >= 2

-----------------------------------------------------------------------------
(* The gatherer from list_clusters on: n resolved skus, clusters of          *)
(* warehouses with and without ids, a server that holds a few stock records *)

MaxSkus == 250
MaxClusters == 2

SkuCounts == {0, 1, 99, 100, 101, 200, MaxSkus}

WhInt == [warehouse_id |-> IntVal(10), name |-> 1]
WhIdOnly == [id |-> IntVal(20), name |-> 2]
WhStr == [warehouse_id |-> StrVal(30), name |-> 3]
WhNoId == [name |-> 4]
WhNullId == [warehouse_id |-> Null, id |-> Null, name |-> 5]

ClusterCandidates ==
    << [name |-> 1,
        logistic_clusters |-> JList(<<[warehouses |-> JList(<<WhInt, WhNoId>>)]>>)],
       [name |-> 2,
        logistic_clusters |-> JList(<<[warehouses |-> JList(<<WhIdOnly>>)],
                                      [warehouses |-> JList(<<WhInt>>)]>>)],
       [name |-> 3, logistic_clusters |-> Null],
       [name |-> 4,
        logistic_clusters |-> JList(<<[warehouses |-> Null], [region |-> 0],
                                      [warehouses |-> JList(<<WhStr, WhNullId>>)]>>)],
       [name |-> 5] >>

\* lists of up to MaxClusters different clusters
ClusterLists ==
    {[j \in 1..Len(ix) |-> ClusterCandidates[ix[j]]] :
        ix \in {f \in UNION {[1..n -> 1..Len(ClusterCandidates)] : n \in 0..MaxClusters} :
                    \A a, b \in 1..Len(f) : a # b => f[a] # f[b]}}

StockFull ==
    [sku |-> IntVal(1), available_stock_count |-> 5, transit_stock_count |-> 1,
     requested_stock_count |-> 2]
StockZero == [sku |-> StrVal(100), available_stock_count |-> 0]
StockNoSku == [available_stock_count |-> 7]
StockTransit == [sku |-> IntVal(250), transit_stock_count |-> 3]
StockNullSku == [sku |-> Null, available_stock_count |-> 4]

StockTables ==
    {<<>>,
     <<[for_sku |-> 1, for_wh |-> 10, item |-> StockFull],
       [for_sku |-> 100, for_wh |-> 10, item |-> StockZero],
       [for_sku |-> 101, for_wh |-> 20, item |-> StockNoSku],
       [for_sku |-> 250, for_wh |-> 30, item |-> StockTransit]>>,
     <<[for_sku |-> 1, for_wh |-> 20, item |-> StockFull],
       [for_sku |-> 1, for_wh |-> 20, item |-> StockNullSku],
       [for_sku |-> 100, for_wh |-> 30, item |-> StockZero]>>}

StockServers ==
    {[NoServer EXCEPT !.clusters = cl, !.stock = st] :
        cl \in ClusterLists, st \in StockTables}
    \cup {[NoServer EXCEPT !.clusters = cl, !.clusterShape = cs, !.stockShape = ss,
                           !.stock = st] :
            cl \in {c \in ClusterLists : Len(c) = 1},
            cs \in {"result", "result_null", "clusters_null"},
            ss \in {"result", "items_null"},
            st \in {t \in StockTables : Len(t) = 4}}
    \cup {[NoServer EXCEPT !.clusters = cl, !.failAt = k] :
            cl \in {c \in ClusterLists : Len(c) = 1}, k \in 1..2}

\* the gatherer's locals once n products have been listed and resolved
ResolvedInfo(n) == [k \in 1..n |-> [id |-> k, sku |-> IntVal(k), name |-> k,
                                    offer_id |-> n - k]]

InitStock ==
    /\ pc = "list_clusters"
    /\ exc = "none"
    /\ reqs = <<>>
    /\ resps = <<>>
    /\ srv \in StockServers
    /\ \E n \in SkuCounts :
          /\ items = [k \in 1..n |-> [product_id |-> k]]
          /\ product_ids = [k \in 1..n |-> k]
          /\ loop_i = IF n = 0 THEN 0 ELSE MAX_INFO_BATCH
          /\ out = ResolvedInfo(n)
          /\ skus = [k \in 1..n |-> k]
          /\ product_meta = [k \in 1..n |-> [k |-> k, v |-> [name |-> k, offer_id |-> n - k]]]
    /\ last_id = 0
    /\ IdleStock
    /\ IdleOrders
    /\ ClientReady

NextStock == ListClusters \/ GatherWarehouse \/ GetStocksBatch

SpecStock == InitStock /\ [][NextStock]_vars

-----------------------------------------------------------------------------
(* Properties of the stock loops *)

GatherReturned == pc = "export_inventory"

\* the positions of the stock requests, in order
StockReqs == SelectSeq([k \in 1..Len(reqs) |-> k],
                       LAMBDA k : reqs[k].ep = "v1/analytics/stocks")

\* the id of a warehouse as a number, 0 when it has none
IdOf(wh) ==
    LET a == IF "warehouse_id" \in DOMAIN wh THEN wh.warehouse_id ELSE Null
        b == IF "id" \in DOMAIN wh THEN wh.id ELSE Null
        c == IF IsNull(a) THEN b ELSE a
    IN  IF IsNull(c) THEN 0 ELSE IF "int" \in DOMAIN c THEN c.int ELSE c.str

\* the warehouses of the cluster response that have an id, in order
WithId == SelectSeq(warehouses, LAMBDA wh : IdOf(wh) # 0)

RECURSIVE ConcatBatches(_, _)
\* the sku batches of the stock requests at positions ks, concatenated
ConcatBatches(ks, n) ==
    IF n = 0 THEN <<>> ELSE ConcatBatches(ks, n - 1) \o reqs[ks[n]].skus

-----------------------------------------------------------------------------
(* The whole run *)

MaxFailAt == 9

Envs ==
    {[OZON_CLIENT_ID |-> a, CLIENT_ID |-> b, OZON_API_KEY |-> c, CLIENT_TOKEN |-> d,
      API_KEY |-> e] :
        a \in {"", "id"}, b \in {"", "id2"}, c \in {"", "key"}, d \in {""},
        e \in {"", "key3"}}
    \cup {[OZON_CLIENT_ID |-> "id", CLIENT_ID |-> "", OZON_API_KEY |-> "",
           CLIENT_TOKEN |-> "key2", API_KEY |-> ""]}

RunPages ==
    {<<[items |-> <<[product_id |-> 1], [offer_id |-> 3], [product_id |-> 2]>>,
        shape |-> "ok", last_id |-> 0]>>,
     <<[items |-> <<[product_id |-> 2]>>, shape |-> "ok", last_id |-> Token(1)],
       [items |-> <<[product_id |-> 4], [product_id |-> 1]>>, shape |-> "ok",
        last_id |-> 0]>>}

RunInfo ==
    << [id |-> 1, sku |-> IntVal(1), name |-> 1, offer_id |-> 2],
       [id |-> 2, sku |-> StrVal(100), name |-> 2, offer_id |-> 1],
       [id |-> 4, name |-> 3, offer_id |-> 3] >>

LineFull == [offer_id |-> StrVal(1), sku |-> IntVal(1), quantity |-> IntVal(2)]
LineZero == [offer_id |-> StrVal(2), quantity |-> IntVal(0)]
LineNoQuantity == [offer_id |-> StrVal(1)]
LineSkuOnly == [sku |-> IntVal(5), quantity |-> StrVal(3)]
LineNullQuantity == [offer_id |-> StrVal(2), quantity |-> Null]
LineNoKey == [quantity |-> IntVal(4)]

RunPostings ==
    {<<>>,
     <<[t |-> 20 * Day, n |-> 2, order |-> [products |-> JList(<<LineFull, LineZero>>)]],
       [t |-> 50 * Day, n |-> 1, order |-> [products |-> JList(<<LineNoQuantity, LineNoKey>>)]],
       [t |-> NowAtExport, n |-> 1, order |-> [products |-> JList(<<LineZero>>)]]>>,
     <<[t |-> 20 * Day, n |-> 1, order |-> [posting_number |-> 7]],
       [t |-> 45 * Day, n |-> 1, order |-> [products |-> JList(<<LineSkuOnly>>)]]>>,
     <<[t |-> 30 * Day, n |-> 1, order |-> [products |-> JList(<<LineSkuOnly, LineFull>>)]]>>,
     <<[t |-> 30 * Day, n |-> 1, order |-> [products |-> JList(<<LineNullQuantity>>)]]>>,
     <<[t |-> 30 * Day, n |-> 1, order |-> [products |-> Null]]>>}

\* a cluster whose one warehouse has its id as a numeric string
ClusterStr ==
    [name |-> 6, logistic_clusters |-> JList(<<[warehouses |-> JList(<<WhStr>>)]>>)]

RunClusters == {cl \in ClusterLists : Len(cl) <= 1} \cup
               {<<ClusterCandidates[1], ClusterCandidates[2]>>, <<ClusterStr>>}

RunServers ==
    {[NoServer EXCEPT !.pages = pg, !.info = RunInfo, !.infoShape = sh,
                      !.clusters = cl, !.stock = st, !.postings = ps] :
        pg \in RunPages, sh \in {"result", "top", "result_null"}, cl \in RunClusters,
        st \in StockTables, ps \in RunPostings}
    \cup {[NoServer EXCEPT !.pages = pg, !.info = RunInfo, !.clusters = cl,
                           !.stock = st, !.postings = ps, !.failAt = k] :
            pg \in {q \in RunPages : Len(q) = 1},
            cl \in {<<ClusterCandidates[2]>>},
            st \in {t \in StockTables : Len(t) = 4},
            ps \in {q \in RunPostings : Len(q) = 3},
            k \in 1..MaxFailAt}

Init ==
    /\ pc = "main"
    /\ exc = "none"
    /\ reqs = <<>>
    /\ resps = <<>>
    /\ srv \in RunServers
    /\ env \in Envs
    /\ client = <<>>
    /\ files = <<>>
    /\ summary = <<>>
    /\ earlier = <<>>
    /\ http = NoHttp
    /\ IdleProducts
    /\ IdleStock
    /\ IdleOrders

Next ==
    \/ Main
    \/ ListProductsPage
    \/ GetProductInfoChunk
    \/ ListClusters
    \/ GatherWarehouse
    \/ GetStocksBatch
    \/ ExportInventory
    \/ StartOrders
    \/ GetOrdersWindow
    \/ GetOrdersPage
    \/ Summarize

Spec == Init /\ [][Next]_vars

-----------------------------------------------------------------------------
(* The gatherer called twice against the same server *)

RerunServers ==
    {[NoServer EXCEPT !.pages = pg, !.info = RunInfo, !.infoShape = sh,
                      !.clusters = cl, !.stock = st] :
        pg \in RunPages, sh \in {"result", "top"},
        cl \in {c \in ClusterLists : Len(c) <= MaxClusters}, st \in StockTables}
    \cup {[NoServer EXCEPT !.pages = pg, !.info = RunInfo, !.clusters = cl,
                           !.stock = st, !.failAt = k] :
            pg \in {q \in RunPages : Len(q) = 1},
            cl \in {<<ClusterCandidates[2]>>},
            st \in {t \in StockTables : Len(t) = 4},
            k \in 1..MaxFailAt}

InitRerun ==
    /\ pc = "list_products"
    /\ exc = "none"
    /\ reqs = <<>>
    /\ resps = <<>>
    /\ srv \in RerunServers
    /\ IdleProducts
    /\ IdleStock
    /\ IdleOrders
    /\ ClientReady

NextRerun ==
    \/ ListProductsPage
    \/ GetProductInfoChunk
    \/ ListClusters
    \/ GatherWarehouse
    \/ GetStocksBatch
    \/ GatherAgain

SpecRerun == InitRerun /\ [][NextRerun]_vars

-----------------------------------------------------------------------------
(* The gatherer is deterministic *)

\* the second call has returned
SecondReturned == earlier # <<>> /\ pc = "export_inventory"

-----------------------------------------------------------------------------
(* The whole run: the inventory sheet, the credentials, odd responses *)

\* the inventory workbook has been written
InventorySaved == files # <<>> /\ files[1].name = "ozon_inventory.xlsx"

\* some sheet holds a zero row with the red fill for the sku under the warehouse
ZeroRowFor(sku, wh) ==
    \E s \in 1..Len(files[1].sheets) :
        \E r \in 1..Len(files[1].sheets[s].rows) :
            LET row == files[1].sheets[s].rows[r]
            IN  /\ row.kind = "sku"
                /\ row.sku = sku
                /\ row.wh = wh
                /\ row.available = 0
                /\ row.fill

\* the inventory map holds a record for the pair
HasRecord(sku, wh) == DHas(inventory, sku) /\ DHas(DAt(inventory, sku), wh)

\* C7: in the exported inventory workbook every pair of a known product and a
\* cluster warehouse that has no record in the inventory map has a row with
\* quantity 0 and the red fill, and so has every pair whose record has
\* available_stock_count = 0
C7_ZeroRows ==
    InventorySaved =>
        \A k \in 1..Len(product_meta), c \in 1..Len(clusters) :
            \A w \in 1..Len(ExportWhs(clusters[c])) :
                LET sku == product_meta[k].k
                    wh == PyInt(WhId(ExportWhs(clusters[c])[w]))
                IN  (~HasRecord(sku, wh)
                        \/ Available(StockData(inventory, sku, wh)) = 0)
                    => ZeroRowFor(sku, wh)

\* a required credential is set under none of its names
CredentialMissing ==
    \/ env.OZON_CLIENT_ID = "" /\ env.CLIENT_ID = ""
    \/ env.OZON_API_KEY = "" /\ env.CLIENT_TOKEN = "" /\ env.API_KEY = ""

\* C8: when the client id or the API key is set under none of the accepted
\* names, the run ends in the configuration error with no client constructed
\* and no request issued
C8_MissingCredential ==
    CredentialMissing =>
        /\ client = <<>>
        /\ reqs = <<>>
        /\ pc \in {"main", "raised"}
        /\ pc = "raised" => exc = "OzonApiError"

\* the run has stopped on a missing API key although the client id was there
C8_Witness ==
    /\ pc = "raised"
    /\ exc = "OzonApiError"
    /\ env.OZON_CLIENT_ID # ""
    /\ CredentialMissing
    /\ reqs = <<>>

\* C10: no successful response with absent or null fields makes the gathering
\* or an export raise: the run never stops on an exception other than the API
\* error of a failed request or of missing credentials
C10_NeverRaises == pc = "raised" => exc = "OzonApiError"

-----------------------------------------------------------------------------
(* The warehouse list of the gatherer *)

\* C11: the warehouse list built from the clusters holds every warehouse id
\* once, and no two stock requests carry the same warehouse id and the same
\* sku batch
C11_Deduplicated ==
    /\ \A a, b \in 1..Len(warehouses) :
          (a # b /\ IdOf(warehouses[a]) # 0) =>
              IdOf(warehouses[a]) # IdOf(warehouses[b])
    /\ \A a, b \in 1..Len(StockReqs) :
          a # b => \/ reqs[StockReqs[a]].warehouse_ids # reqs[StockReqs[b]].warehouse_ids
                   \/ reqs[StockReqs[a]].skus # reqs[StockReqs[b]].skus

-----------------------------------------------------------------------------
(* The whole run: failed requests, the order of the phases, the files *)

\* the requests of the phases, by endpoint
IsOrdersEp(k) == reqs[k].ep = "v2/posting/fbo/list"

\* C12: a request that ends in an API error is the last request of the run:
\* the run has stopped on OzonApiError, and no file has been written since (no
\* file at all when the request belongs to the gathering, the inventory file
\* alone when it is an order request)
C12_ApiErrorAborts ==
    \A k \in 1..Len(resps) :
        ~resps[k].ok =>
            /\ k = Len(resps)
            /\ Len(reqs) = Len(resps)
            /\ pc = "raised"
            /\ exc = "OzonApiError"
            /\ Len(files) = IF IsOrdersEp(k) THEN 1 ELSE 0

\* an order request has failed after the inventory file was written
C12_Witness ==
    /\ pc = "raised"
    /\ exc = "OzonApiError"
    /\ resps # <<>>
    /\ ~resps[Len(resps)].ok
    /\ IsOrdersEp(Len(reqs))
    /\ Len(files) = 1

\* the phase of a request: product list, product info, cluster list, stock,
\* orders
PhaseOf(req) ==
    CASE req.ep = "v3/product/list" -> 1
      [] req.ep = "v3/product/info/list" -> 2
      [] req.ep = "v1/cluster/list" -> 3
      [] req.ep = "v1/analytics/stocks" -> 4
      [] req.ep = "v2/posting/fbo/list" -> 5

\* every request issued so far has been answered
NoneInFlight == Len(reqs) = Len(resps)

PhasesInOrder ==
    /\ \A a, b \in 1..Len(reqs) : a < b => PhaseOf(reqs[a]) <= PhaseOf(reqs[b])
    /\ Cardinality({k \in 1..Len(reqs) : PhaseOf(reqs[k]) = 3}) <= 1

\* a request of the gathering goes out in this step
GatherRequestIssued ==
    /\ Len(reqs') = Len(reqs) + 1
    /\ PhaseOf(reqs'[Len(reqs')]) <= 4

\* C13: in the request log the product-list requests come first, then the
\* product-info requests, then the one cluster-list request, then the stock
\* requests, then the order requests; every request is answered before the
\* next step, so at most one is in flight; and a request of the gathering
\* goes out only while no file has been written, so the inventory export
\* comes after the last stock request
C13_PhaseOrdered ==
    /\ [](PhasesInOrder /\ NoneInFlight)
    /\ [][GatherRequestIssued => (files = <<>> /\ files' = <<>>)]_vars

\* a run has finished with requests of all five phases and both files
C13_Witness ==
    /\ pc = "done"
    /\ Len(files) = 2
    /\ \A ph \in 1..5 : \E k \in 1..Len(reqs) : PhaseOf(reqs[k]) = ph

\* where the run is while it gathers
GatherPcs == {"list_products", "get_product_info", "list_clusters", "warehouse",
              "stock_batch"}

\* the inventory file exists only once every request of the gathering has
\* succeeded and the gathering is over; the order file only once every
\* request of the run has succeeded and the run is over
FilesAfterRequests ==
    /\ Len(files) <= 2
    /\ files # <<>> =>
          /\ files[1].name = "ozon_inventory.xlsx"
          /\ pc \notin GatherPcs
          /\ \A k \in 1..Len(reqs) : PhaseOf(reqs[k]) <= 4 => resps[k].ok
    /\ Len(files) = 2 =>
          /\ files[2].name = "ozon_last_3_months.xlsx"
          /\ pc = "done"
          /\ \A k \in 1..Len(reqs) : resps[k].ok

\* C14: a file is written only by the last step of its export, which issues no
\* request, after every request whose data it holds has succeeded: a failed
\* request of the gathering leaves no inventory file and a failed order request
\* leaves no order-summary file
C14_FilesAtEnd ==
    /\ []FilesAfterRequests
    /\ [][files' # files =>
            (pc \in {"export_inventory", "summarize"} /\ reqs' = reqs)]_vars

\* a stock request has failed and no file exists
C14_Witness ==
    /\ pc = "raised"
    /\ exc = "OzonApiError"
    /\ reqs # <<>>
    /\ PhaseOf(reqs[Len(reqs)]) = 4
    /\ ~resps[Len(reqs)].ok
    /\ files = <<>>

-----------------------------------------------------------------------------
(* The inventory map of the gatherer *)

CountFields == {"available_stock_count", "transit_stock_count",
                "requested_stock_count"}

\* the items of the answered stock requests for warehouse wh, in order
RECURSIVE ItemsFor(_, _)
ItemsFor(wh, n) ==
    IF n = 0 THEN <<>>
    ELSE ItemsFor(wh, n - 1) \o
         (IF /\ reqs[n].ep = "v1/analytics/stocks"
             /\ reqs[n].warehouse_ids = <<wh>>
             /\ n <= Len(resps)
             /\ resps[n].ok
          THEN StockItemsOf(resps[n].data)
          ELSE <<>>)

\* those of them that name the sku
ItemsOfSku(sku, wh) ==
    SelectSeq(ItemsFor(wh, Len(reqs)),
              LAMBDA it : /\ "sku" \in DOMAIN it
                          /\ ~IsNull(it.sku)
                          /\ PyInt(it.sku) = sku)

\* the count an item gives for a field, 0 when it has none
CountOf(it, f) == IF f \in DOMAIN it THEN it[f] ELSE 0

\* the ids of the warehouses that have one
KnownWhIds == {IdOf(warehouses[w]) : w \in 1..Len(warehouses)} \ {0}

\* C15: stock requests go out only for warehouses that have an id, and only
\* their ids key the inventory; an inventory entry (sku, warehouse) exists
\* exactly if a stock response for that warehouse held an item with that sku;
\* every entry holds the three counts, each equal to the count of the last
\* such item, or 0 where the item has no such field
C15_InventoryEntries ==
    /\ \A k \in 1..Len(StockReqs) :
          \E id \in KnownWhIds : reqs[StockReqs[k]].warehouse_ids = <<id>>
    /\ \A i \in 1..Len(inventory) : \A j \in 1..Len(inventory[i].v) :
          LET sku == inventory[i].k
              wh == inventory[i].v[j].k
              rec == inventory[i].v[j].v
              its == ItemsOfSku(sku, wh)
          IN  /\ wh \in KnownWhIds
              /\ its # <<>>
              /\ DOMAIN rec = CountFields
              /\ \A f \in CountFields : rec[f] = CountOf(its[Len(its)], f)
    /\ \A id \in KnownWhIds :
          LET its == ItemsFor(id, Len(reqs))
          IN  \A n \in 1..Len(its) :
                ("sku" \in DOMAIN its[n] /\ ~IsNull(its[n].sku))
                    => HasRecord(PyInt(its[n].sku), id)

\* the gatherer has returned after passing over a warehouse with no id,
\* receiving an item with no sku, and storing an item that had only a transit
\* count
C15_Witness ==
    /\ GatherReturned
    /\ \E w \in 1..Len(warehouses) : IdOf(warehouses[w]) = 0
    /\ \E id \in KnownWhIds :
          \E n \in 1..Len(ItemsFor(id, Len(reqs))) :
              "sku" \notin DOMAIN ItemsFor(id, Len(reqs))[n]
    /\ HasRecord(250, 30)
    /\ StockData(inventory, 250, 30) =
          [available_stock_count |-> 0, transit_stock_count |-> 3,
           requested_stock_count |-> 0]

-----------------------------------------------------------------------------
(* The order summary *)

\* the line items of the fetched postings that have a key
KeyedLines ==
    SelectSeq(LineItems(FetchedOrders(orders)), LAMBDA it : Truthy(ItemKey(it)))

RECURSIVE SumFor(_, _, _)
\* the quantities of the line items with the key, summed; a line item with no
\* quantity field counts as absent
SumFor(key, lines, absent) ==
    IF lines = <<>> THEN 0
    ELSE (IF ItemKey(Head(lines)) # key THEN 0
          ELSE IF "quantity" \in DOMAIN Head(lines)
               THEN PyInt(Head(lines).quantity)
               ELSE absent)
         + SumFor(key, Tail(lines), absent)

\* the summary holds the keys of the line items, each with its sum
TotalsAre(absent) ==
    /\ \A n \in 1..Len(KeyedLines) : DHas(summary, ItemKey(KeyedLines[n]))
    /\ \A n \in 1..Len(summary) :
          /\ summary[n].v = SumFor(summary[n].k, KeyedLines, absent)
          /\ summary[n].v \in Nat

-----------------------------------------------------------------------------
(* One call of _post against a server that fails some attempts *)

MaxFlaky == 7

Endpoints == {"v1/cluster/list", "v3/product/list"}
FinalStatuses == {200, 204, 400, 404, 429, 500}

PostServers ==
    {[NoServer EXCEPT !.flaky = k, !.flakyStatus = r, !.status = f,
                      !.bodyIsJson = j, !.body = b] :
        k \in 0..MaxFlaky, r \in STATUS_FORCELIST, f \in FinalStatuses,
        j \in BOOLEAN, b \in {1, 2}}

InitPost ==
    /\ pc = "post"
    /\ exc = "none"
    /\ \E e \in Endpoints : reqs = <<[ep |-> e]>>
    /\ resps = <<>>
    /\ srv \in PostServers
    /\ IdleProducts
    /\ IdleStock
    /\ IdleOrders
    /\ ClientReady

NextPost == SessionPost \/ RaiseForStatus

SpecPost == InitPost /\ [][NextPost]_vars

\* session.post has handed a response back, or _post has ended
Answered == pc \in {"response", "raised", "returned"}

\* every attempt made got a status of the force list
OnlyRetryable == \A n \in 1..http.attempts : StatusAt(n) \in STATUS_FORCELIST

\* the call makes at most most attempts; when every attempt gets a retryable
\* status it ends after exactly that many in OzonApiError with the endpoint,
\* the last status and the body; when the first attempt gets a non-2xx status
\* outside the force list it ends after that attempt in OzonApiError
AttemptsBounded(most) ==
    /\ http.attempts <= most
    /\ (Answered /\ OnlyRetryable) =>
          /\ http.attempts = most
          /\ pc # "returned"
          /\ pc = "raised" =>
                /\ exc = "OzonApiError"
                /\ http.error = <<[kind |-> "HTTP error", status |-> StatusAt(most),
                                   endpoint |-> reqs[1].ep, body |-> srv.body]>>
    /\ (Answered /\ StatusAt(1) >= 400 /\ StatusAt(1) \notin STATUS_FORCELIST) =>
          /\ http.attempts = 1
          /\ pc # "returned"
          /\ pc = "raised" =>
                /\ exc = "OzonApiError"
                /\ http.error = <<[kind |-> "HTTP error", status |-> StatusAt(1),
                                   endpoint |-> reqs[1].ep, body |-> srv.body]>>

\* C17 as stated: a call whose attempts all get a retryable status stops after
\* 5 attempts in total with a typed API error carrying the endpoint, the
\* status and the body, and a non-retryable non-2xx status is surfaced after
\* one attempt
C17_FiveAttempts == AttemptsBounded(5)

\* C17 amended: the same with 6 attempts in total, the first and 5 retries
C17_SixAttempts == AttemptsBounded(6)

\* a call has ended in the API error after six attempts, all answered 503
C17_Witness ==
    /\ pc = "raised"
    /\ http.attempts = 6
    /\ OnlyRetryable
    /\ http.status = 503

-----------------------------------------------------------------------------
(* get_orders terminates *)

\* servers with at most one group of postings: answering with lists
\* throughout, answering one request with something that is no list, failing
\* one request
LoopServers ==
    {[NoServer EXCEPT !.postings = ps] : ps \in PostingLists(0, 1)}
    \cup {[NoServer EXCEPT !.postings = ps, !.oddAt = k, !.oddKind = kind] :
            ps \in PostingLists(0, 1), k \in 1..2, kind \in OddKinds}
    \cup {[NoServer EXCEPT !.postings = ps, !.failAt = k] :
            ps \in PostingLists(0, 1), k \in 1..2}

InitLoops ==
    /\ pc = "get_orders"
    /\ exc = "none"
    /\ reqs = <<>>
    /\ resps = <<>>
    /\ since = 0
    /\ to \in PeriodLengths
    /\ srv \in LoopServers
    /\ current_since = since
    /\ current_to = since
    /\ offset = 0
    /\ orders = <<>>
    /\ IdleProducts
    /\ IdleStock
    /\ ClientReady

\* the loops of get_orders keep running until the function returns or raises
SpecOrdersFair == InitLoops /\ [][NextOrders]_vars /\ WF_vars(NextOrders)

\* the inner loop is left and the window advanced
WindowLeft == pc = "orders_page" /\ pc' = "get_orders"

\* the page requests issued for the window of request k
PagesInWindow(k) ==
    Cardinality({j \in 1..Len(reqs) : IsOrderReq(j) /\ SameWindow(j, k)})

\* C18: get_orders ends, by returning or by the error of a failed request;
\* whenever a window is left the window start has strictly increased and is
\* not beyond to, at least one page request has been issued for that window,
\* and no window ever has more than 20 page requests (counted whenever a
\* request has just been issued, for the window of that request)
C18_Terminates ==
    /\ <>(pc \in {"summarize", "raised"})
    /\ [][WindowLeft =>
            /\ current_since < current_since'
            /\ current_since' <= to
            /\ \E k \in 1..Len(reqs') :
                  /\ reqs'[k].ep = "v2/posting/fbo/list"
                  /\ ParseTs(reqs'[k].since) = current_since]_vars
    /\ [](reqs # <<>> => PagesInWindow(Len(reqs)) \in 1..20)

\* get_orders has returned after several windows, one of them with 20 pages
C18_Witness ==
    /\ pc = "summarize"
    /\ Len(WindowOpeners) >= 2
    /\ \E k \in 1..Len(reqs) : IsOrderReq(k) /\ PagesInWindow(k) = 20

-----------------------------------------------------------------------------
(* The inventory sheet shows what was gathered *)

\* the sheet of the cluster holds a row for the sku under the warehouse with
\* the counts of the record
RowShows(cluster, sku, wh, rec) ==
    \E s \in 1..Len(files[1].sheets) :
        /\ files[1].sheets[s].title = DictGet(cluster, "name", 0)
        /\ \E r \in 1..Len(files[1].sheets[s].rows) :
              LET row == files[1].sheets[s].rows[r]
              IN  /\ row.kind = "sku"
                  /\ row.sku = sku
                  /\ row.wh = wh
                  /\ row.available = rec.available_stock_count
                  /\ row.transit = rec.transit_stock_count
                  /\ row.requested = rec.requested_stock_count

\* C19: in the exported inventory workbook, for every cluster, every
\* warehouse of that cluster and every sku of the product metadata, a record
\* the inventory map holds for the sku and the warehouse id is shown as a row
\* of the cluster's sheet with the stored counts, whether the cluster response
\* gives the warehouse id as a number or as a numeric string
C19_EveryRecordShown ==
    InventorySaved =>
        \A k \in 1..Len(product_meta), c \in 1..Len(clusters) :
            \A w \in 1..Len(ExportWhs(clusters[c])) :
                LET sku == product_meta[k].k
                    wh == PyInt(WhId(ExportWhs(clusters[c])[w]))
                IN  HasRecord(sku, wh) =>
                        RowShows(clusters[c], sku, wh, StockData(inventory, sku, wh))

====
